---- MODULE Spec2Model ----
(***************************************************************************)
(* The retrieval-augmented answer pipeline of product-search-app:          *)
(* chainlit_app.py (the two LangGraph nodes search_products and            *)
(* generate_answer, driven by the on_message handler main), the request    *)
(* validation of models.py and the /search endpoint of main.py.            *)
(*                                                                         *)
(* Python values are represented as follows.                               *)
(*   str            a TLA+ string                                          *)
(*   None           the string None (no program string equals it)          *)
(*   a JSON value   [t |-> "list", items |-> <<...>>] for an array,        *)
(*                  [t |-> "null", items |-> <<>>] for null (an unsized,   *)
(*                  falsy value standing for every non-array)              *)
(*   a result entry [id, title, description, score, defect]: score is in   *)
(*                  thousandths; defect names what a malformed entry lacks *)
(***************************************************************************)
EXTENDS Integers, Sequences, FiniteSets, TLC

\* ---------------------------------------------------------------- bounds
NumInvocations == 2
MaxResults == 2

\* ------------------------------------------------------ program constants
HTTP_OK == 200
HTTP_UNPROCESSABLE == 422
HTTP_UNAVAILABLE == 503
MinQueryLength == 1
MaxQueryLength == 500
SearchSize == 5
MinSize == 1
MaxSize == 100

None == "None"

Invocations == 1 .. NumInvocations

\* ------------------------------------------------------------- input data
RECURSIVE Repeat(_, _)
\* s * n
Repeat(s, n) ==
    IF n = 0 THEN ""
    ELSE IF n % 2 = 0 THEN LET half == Repeat(s, n \div 2) IN half \o half
    ELSE s \o Repeat(s, n - 1)

LongestValidQuery == Repeat("q", MaxQueryLength)
TooLongQuery == Repeat("q", MaxQueryLength + 1)

\* message.content of the incoming chat message (main, line 189)
Queries == {"", "bluetooth headphones", LongestValidQuery, TooLongQuery}

Defects == {"no_title", "no_description", "no_score", "score_str", "not_object"}

Entry(id, title, description, score, defect) ==
    [id |-> id, title |-> title, description |-> description,
     score |-> score, defect |-> defect]

\* models.Product instances as they appear in a JSON body
GoodEntries ==
    { Entry(1, "Sony WH-1000XM5", "Noise-canceling headphones", 15234, "none"),
      Entry(2, "JBL Tune 510BT", "Wireless on-ear headphones", 9800, "none") }

\* entries that are not a models.Product
BadEntries == { Entry(3, "Anker Q20", "Budget headphones", 4100, d) : d \in Defects }

Entries == GoodEntries \cup BadEntries

RECURSIVE SeqsUpTo(_, _)
SeqsUpTo(S, n) ==
    IF n = 0 THEN {<<>>}
    ELSE LET shorter == SeqsUpTo(S, n - 1)
         IN  shorter \cup { Append(s, e) : s \in shorter, e \in S }

JsonList(items) == [t |-> "list", items |-> items]
JsonNull == [t |-> "null", items |-> <<>>]

\* bool(value): an empty list and None are falsy
Truthy(v) == v.t = "list" /\ Len(v.items) > 0

\* len(value) raises TypeError for a value without a length
Sized(v) == v.t = "list"

\* bool(s) for s: str | None
TruthyStr(s) == s # None /\ s # ""

\* ------------------------------------------------- the index call outcomes
\* A response body: json is "invalid" (response.json() raises), "array" (the
\* document is not an object) or "object"; an object may lack either field.
Body(json, has_results, results, has_took_ms) ==
    [json |-> json, has_results |-> has_results, results |-> results,
     has_took_ms |-> has_took_ms]

\* the body of an error response ({"detail": ...}); the client never reads it
DetailBody == Body("object", FALSE, JsonNull, FALSE)

\* models.SearchResponse with the given results
SearchResponse(results) == Body("object", TRUE, JsonList(results), TRUE)

Response(via, status, body) ==
    [kind |-> "response", via |-> via, exc |-> "", status |-> status, body |-> body]

\* client.post raised: kind is "timeout" or "connect", exc is str(e)
TransportFailure(kind, exc) ==
    [kind |-> kind, via |-> "transport", exc |-> exc, status |-> 0, body |-> DetailBody]

\* no outcome yet
NoOutcome == [kind |-> "none", via |-> "none", exc |-> "", status |-> 0, body |-> DetailBody]

\* models.SearchRequest: query has 1..500 characters, size is in 1..100
SearchRequestValid(query, size) ==
    /\ Len(query) >= MinQueryLength
    /\ Len(query) <= MaxQueryLength
    /\ size >= MinSize
    /\ size <= MaxSize

\* main.search_products, the POST /search endpoint
search_api(query, size, es_connected, index_exists) ==
    IF ~SearchRequestValid(query, size)
    THEN Response("api", HTTP_UNPROCESSABLE, DetailBody)
    ELSE IF ~es_connected THEN Response("api", HTTP_UNAVAILABLE, DetailBody)
    ELSE IF ~index_exists THEN Response("api", HTTP_UNAVAILABLE, DetailBody)
    ELSE Response("api", HTTP_OK, SearchResponse(<<>>))

\* what any other service behind SEARCH_API_URL (or an intermediary) can answer
OtherStatuses == {201, 302, 404, 500}

OkBodies(lists) ==
    {Body("invalid", FALSE, JsonNull, FALSE), Body("array", FALSE, JsonNull, FALSE),
     Body("object", FALSE, JsonNull, TRUE)}
    \cup { Body("object", TRUE, JsonNull, t) : t \in BOOLEAN }
    \cup { Body("object", TRUE, JsonList(l), t) : l \in lists, t \in BOOLEAN }

TransportFailures ==
    { TransportFailure("timeout", ""), TransportFailure("timeout", "timed out"),
      TransportFailure("connect", "All connection attempts failed") }

\* every outcome of the awaited client.post for this query, the result lists
\* an HTTP 200 may carry being drawn from lists
IndexOutcomes(query, lists) ==
    TransportFailures
    \cup { search_api(query, SearchSize, c, x) : c \in BOOLEAN, x \in BOOLEAN }
    \cup { Response("other", s, DetailBody) : s \in OtherStatuses }
    \cup { Response("other", HTTP_OK, b) : b \in OkBodies(lists) }

AllLists == SeqsUpTo(Entries, MaxResults)

\* how many documents of the index match the query when the endpoint answers
\* 200 (none, or at least one); the endpoint never reads them (lines 104-112).
\* An outcome that is not the endpoint's success carries no count.
IndexHits(o) == IF o.via = "api" /\ o.status = HTTP_OK THEN {0, 1} ELSE {0}

\* ------------------------------------------------ search_products (node 1)
\* str(e) of the exception raised while a 200 response is processed
\* (lines 58-60), None when none is raised
JsonExceptionText(body) ==
    IF body.json = "invalid" THEN "Expecting value: line 1 column 1 (char 0)"
    ELSE IF body.json = "array" THEN "list indices must be integers or slices, not str"
    ELSE IF ~body.has_results THEN "'results'"
    ELSE IF ~Sized(body.results) THEN "object of type 'NoneType' has no len()"
    ELSE IF ~body.has_took_ms THEN "'took_ms'"
    ELSE None

\* whether line 59 is reached and assigns state["search_results"]
ResultsAssigned(body) == body.json = "object" /\ body.has_results

StatusError(status) == "Search failed with status " \o ToString(status)

\* an except branch that records str(e) alone
ExceptionError_Bare(text) == text

ExceptionError(text) == "Search error: " \o text

\* a node that stores the results in the reverse of the order received
SearchProductsState_Reversed(st, o) ==
    LET items == o.body.results.items
        n == Len(items)
    IN  IF o.kind = "response" /\ o.status = HTTP_OK /\ ResultsAssigned(o.body)
        THEN [st EXCEPT !.search_results =
                            [t |-> o.body.results.t,
                             items |-> [k \in 1 .. n |-> items[n + 1 - k]]],
                        !.error = IF JsonExceptionText(o.body) = None THEN None
                                  ELSE ExceptionError(JsonExceptionText(o.body))]
        ELSE IF o.kind = "response" /\ o.status # HTTP_OK
        THEN [st EXCEPT !.error = StatusError(o.status)]
        ELSE [st EXCEPT !.error = ExceptionError(
                            IF o.kind = "response" THEN JsonExceptionText(o.body) ELSE o.exc)]

\* the state the node returns for an outcome of the request (lines 49-69)
SearchProductsState(st, o) ==
    IF o.kind # "response"
    THEN [st EXCEPT !.error = ExceptionError(o.exc)]
    ELSE IF o.status = HTTP_OK
    THEN LET assigned == IF ResultsAssigned(o.body)
                         THEN [st EXCEPT !.search_results = o.body.results]
                         ELSE st
             text == JsonExceptionText(o.body)
         IN  IF text = None THEN assigned
             ELSE [assigned EXCEPT !.error = ExceptionError(text)]
    ELSE [st EXCEPT !.error = StatusError(o.status)]

\* ------------------------------------------------ generate_answer (node 2)
\* f"{score:.2f}" of a score given in thousandths (the candidate scores above
\* have no tie at the third decimal)
Format2f(score) ==
    LET hundredths == (score + 5) \div 10
        frac == hundredths % 100
    IN  ToString(hundredths \div 100) \o "."
        \o (IF frac < 10 THEN "0" ELSE "") \o ToString(frac)

\* one record of the context block (lines 94-97), k is i+1
FormatRecord(k, e) ==
    "Product " \o ToString(k) \o ":\n"
    \o "Title: " \o e.title \o "\n"
    \o "Description: " \o e.description \o "\n"
    \o "Relevance Score: " \o Format2f(e.score)

\* str(e) of the exception that formatting this entry raises, None if none
RecordExceptionText(e) ==
    CASE e.defect = "not_object" -> "'int' object is not subscriptable"
      [] e.defect = "no_title" -> "'title'"
      [] e.defect = "no_description" -> "'description'"
      [] e.defect = "no_score" -> "'score'"
      [] e.defect = "score_str" -> "Unknown format code 'f' for object of type 'str'"
      [] OTHER -> None

\* the exception raised by the list comprehension of lines 93-99: that of the
\* first entry that cannot be formatted
ContextExceptionText(items) ==
    LET bad == { k \in 1 .. Len(items) : RecordExceptionText(items[k]) # None }
    IN  IF bad = {} THEN None
        ELSE RecordExceptionText(items[CHOOSE k \in bad : \A j \in bad : k <= j])

RECURSIVE JoinRecords_ZeroBased(_, _)
\* a join that numbers the records by i instead of i+1
JoinRecords_ZeroBased(items, k) ==
    IF k > Len(items) THEN ""
    ELSE FormatRecord(k - 1, items[k])
         \o (IF k < Len(items) THEN "\n\n" ELSE "")
         \o JoinRecords_ZeroBased(items, k + 1)

RECURSIVE JoinRecords(_, _)
\* "\n\n".join of the records of items[k ..]
JoinRecords(items, k) ==
    IF k > Len(items) THEN ""
    ELSE FormatRecord(k, items[k])
         \o (IF k < Len(items) THEN "\n\n" ELSE "")
         \o JoinRecords(items, k + 1)

\* the context block (lines 93-99)
FormatContext(items) == JoinRecords(items, 1)

\* the prompt (lines 102-116)
Prompt(context, query) ==
    "You are a helpful product search assistant. Based on the search results below, answer the user's question accurately.\n\n"
    \o "Search Results:\n" \o context \o "\n\n"
    \o "User Question: " \o query \o "\n\n"
    \o "Instructions:\n"
    \o "- Provide a concise answer\n"
    \o "- Reference specific products from the search results\n"
    \o "- If multiple products match, compare them briefly\n"
    \o "- Be conversational\n"
    \o "- If no products perfectly match, suggest the closest alternatives\n\n"
    \o "Answer:"

\* generate_answer without the early return on an error
SkipsOnError_Never(st) == FALSE

\* line 77: if state.get("error")
SkipsOnError(st) == TruthyStr(st.error)

\* generate_answer without the early return on an empty result list
SkipsOnNoResults_Never(st) == FALSE

\* line 85: if not search_results
SkipsOnNoResults(st) == ~Truthy(st.search_results)

\* line 78
ErrorAnswer(error) == "Sorry, I encountered an error: " \o error

\* line 86
NoMatchAnswer == "I couldn't find any products matching your query. Could you try rephrasing?"

\* an except branch that also records the failure as the pipeline error
GenerationFailedState_SetsError(st, text) ==
    [st EXCEPT !.answer = "Sorry, I couldn't generate a response: " \o text,
               !.error = text]

\* line 125: the state after the except branch of the backend call
GenerationFailedState(st, text) ==
    [st EXCEPT !.answer = "Sorry, I couldn't generate a response: " \o text]

\* line 28
MissingKeyText == "GROQ_API_KEY not found in environment variables"

\* get_llm succeeds when the credential is set (lines 26-28)
HasCredential(api_key) == TruthyStr(api_key)

\* what llm.invoke can do: return a completion (possibly empty) or raise
LlmOutcomes ==
    { [kind |-> "completion", text |-> "The Sony WH-1000XM5 is the closest match."],
      [kind |-> "completion", text |-> ""],
      [kind |-> "raised", text |-> "Connection error."],
      [kind |-> "raised", text |-> ""] }

NoLlmOutcome == [kind |-> "none", text |-> ""]

MissingKeyOutcome == [kind |-> "no_credential", text |-> MissingKeyText]

\* ------------------------------------------------------- main (on_message)
\* str(e) of the exception raised by line 205 for an entry, None if none
DisplayExceptionText(e) ==
    CASE e.defect = "not_object" -> "'int' object is not subscriptable"
      [] e.defect = "no_title" -> "'title'"
      [] e.defect = "no_score" -> "'score'"
      [] e.defect = "score_str" -> "Unknown format code 'f' for object of type 'str'"
      [] OTHER -> None

ResultsExceptionText(items) ==
    LET bad == { k \in 1 .. Len(items) : DisplayExceptionText(items[k]) # None }
    IN  IF bad = {} THEN None
        ELSE DisplayExceptionText(items[CHOOSE k \in bad : \A j \in bad : k <= j])

RECURSIVE ResultLines(_, _)
ResultLines(items, k) ==
    IF k > Len(items) THEN ""
    ELSE ToString(k) \o ". " \o items[k].title
         \o " (Score: " \o Format2f(items[k].score) \o ")\n"
         \o ResultLines(items, k + 1)

\* lines 203-205
ResultsText(items) ==
    "**Found " \o ToString(Len(items)) \o " relevant products**\n\n" \o ResultLines(items, 1)

Message(author, content) == [author |-> author, content |-> content]

\* lines 222-227
ErrorMessage(text) ==
    Message("Chatbot", "An error occurred: " \o text \o "\n\nPlease make sure:\n"
                       \o "1. FastAPI server is running (http://localhost:8000)\n"
                       \o "2. GROQ_API_KEY is set in your environment")

\* the messages sent after agent.ainvoke returned result (lines 199-227)
Display(res) ==
    IF Truthy(res.search_results)
    THEN IF ResultsExceptionText(res.search_results.items) # None
         THEN << ErrorMessage(ResultsExceptionText(res.search_results.items)) >>
         ELSE << Message("Search Engine", ResultsText(res.search_results.items)),
                 Message("AI Assistant", res.answer) >>
    ELSE << Message("AI Assistant", res.answer) >>

\* lines 188-193
InitialState(query) ==
    [query |-> query, search_results |-> JsonList(<<>>), answer |-> "", error |-> None]

NoState == [query |-> None, search_results |-> JsonNull, answer |-> None, error |-> None]

\* ------------------------------------------------------------------ state
VARIABLES
    pc,             \* where each invocation of main is
    state,          \* the AgentState record of each invocation
    result,         \* what agent.ainvoke returned to main
    outcome,        \* the outcome of the invocation's index request
    llm_outcome,    \* the outcome of the invocation's backend call
    index_calls,    \* client.post calls issued
    get_llm_calls,  \* get_llm calls made
    invoke_calls,   \* llm.invoke calls made
    prompt,         \* the prompt handed to llm.invoke
    exc,            \* str(e) of the exception that left the workflow
    sent,           \* the chat messages on display
    loop,           \* the invocation running on the event loop, 0 when free
    index_hits,     \* documents matching the query in the index behind /search
    GROQ_API_KEY    \* os.getenv("GROQ_API_KEY")

vars == <<pc, state, result, outcome, llm_outcome, index_calls, get_llm_calls,
          invoke_calls, prompt, exc, sent, loop, index_hits, GROQ_API_KEY>>

\* the bookkeeping of invocation i
Put(f, i, v) == [f EXCEPT ![i] = v]

\* one module-level state dict shared by every invocation
SetState_Shared(states, i, st) == [j \in DOMAIN states |-> st]

\* a write to the state dict of invocation i: main builds a fresh dict for every
\* message (lines 188-193), so a write reaches that invocation's record only
SetState(states, i, st) == [states EXCEPT ![i] = st]

Init ==
    /\ pc = [i \in Invocations |-> "idle"]
    /\ state = [i \in Invocations |-> NoState]
    /\ result = [i \in Invocations |-> NoState]
    /\ outcome = [i \in Invocations |-> NoOutcome]
    /\ llm_outcome = [i \in Invocations |-> NoLlmOutcome]
    /\ index_calls = [i \in Invocations |-> 0]
    /\ get_llm_calls = [i \in Invocations |-> 0]
    /\ invoke_calls = [i \in Invocations |-> 0]
    /\ prompt = [i \in Invocations |-> None]
    /\ exc = [i \in Invocations |-> None]
    /\ sent = [i \in Invocations |-> <<>>]
    /\ loop = 0
    /\ index_hits = [i \in Invocations |-> 0]
    /\ GROQ_API_KEY \in {None, "", "gsk_key"}

\* main up to the awaited client.post: the thinking message, the initial
\* state, agent.ainvoke and the start of search_products
main(i, query) ==
    /\ pc[i] = "idle"
    /\ loop = 0
    /\ state' = SetState(state, i, InitialState(query))
    /\ sent' = Put(sent, i, << Message("Chatbot", "Searching products...") >>)
    /\ index_calls' = Put(index_calls, i, index_calls[i] + 1)
    /\ pc' = Put(pc, i, "search_wait")
    /\ UNCHANGED <<result, outcome, llm_outcome, get_llm_calls, invoke_calls,
                   prompt, exc, loop, GROQ_API_KEY, index_hits>>

\* a search_products that issues the request once more after a failed attempt
search_products_Retrying(i, outcomes) ==
    /\ pc[i] = "search_wait"
    /\ loop = 0
    /\ \E o \in outcomes :
          /\ outcome' = Put(outcome, i, o)
          /\ \E h \in IndexHits(o) : index_hits' = Put(index_hits, i, h)
          /\ IF SearchProductsState(state[i], o).error # None /\ index_calls[i] < 2
             THEN /\ index_calls' = Put(index_calls, i, index_calls[i] + 1)
                  /\ UNCHANGED <<state, pc>>
             ELSE /\ state' = SetState(state, i, SearchProductsState(state[i], o))
                  /\ pc' = Put(pc, i, "searched")
                  /\ UNCHANGED index_calls
    /\ UNCHANGED <<result, llm_outcome, get_llm_calls, invoke_calls,
                   prompt, exc, sent, loop, GROQ_API_KEY>>

\* search_products from the completion of client.post to its return
search_products(i, outcomes) ==
    /\ pc[i] = "search_wait"
    /\ loop = 0
    /\ \E o \in outcomes :
          /\ outcome' = Put(outcome, i, o)
          /\ state' = SetState(state, i, SearchProductsState(state[i], o))
          /\ \E h \in IndexHits(o) : index_hits' = Put(index_hits, i, h)
    /\ pc' = Put(pc, i, "searched")
    /\ UNCHANGED <<result, llm_outcome, index_calls, get_llm_calls, invoke_calls,
                   prompt, exc, sent, loop, GROQ_API_KEY>>

\* generate_answer up to its return, or up to the call of llm.invoke, which
\* does not yield the event loop
generate_answer(i) ==
    /\ pc[i] = "searched"
    /\ loop = 0
    /\ LET st == state[i]
           text == ContextExceptionText(st.search_results.items)
       IN  IF SkipsOnError(st)
           THEN /\ state' = SetState(state, i, [st EXCEPT !.answer = ErrorAnswer(st.error)])
                /\ pc' = Put(pc, i, "generated")
                /\ UNCHANGED <<llm_outcome, get_llm_calls, invoke_calls, prompt, exc, loop>>
           ELSE IF SkipsOnNoResults(st)
           THEN /\ state' = SetState(state, i, [st EXCEPT !.answer = NoMatchAnswer])
                /\ pc' = Put(pc, i, "generated")
                /\ UNCHANGED <<llm_outcome, get_llm_calls, invoke_calls, prompt, exc, loop>>
           ELSE IF text # None
           THEN /\ exc' = Put(exc, i, text)
                /\ pc' = Put(pc, i, "raised")
                /\ UNCHANGED <<state, llm_outcome, get_llm_calls, invoke_calls, prompt, loop>>
           ELSE IF ~HasCredential(GROQ_API_KEY)
           THEN /\ get_llm_calls' = Put(get_llm_calls, i, get_llm_calls[i] + 1)
                /\ llm_outcome' = Put(llm_outcome, i, MissingKeyOutcome)
                /\ state' = SetState(state, i, GenerationFailedState(st, MissingKeyText))
                /\ pc' = Put(pc, i, "generated")
                /\ UNCHANGED <<invoke_calls, prompt, exc, loop>>
           ELSE /\ get_llm_calls' = Put(get_llm_calls, i, get_llm_calls[i] + 1)
                /\ invoke_calls' = Put(invoke_calls, i, invoke_calls[i] + 1)
                /\ prompt' = Put(prompt, i,
                                 Prompt(FormatContext(st.search_results.items), st.query))
                /\ loop' = i
                /\ pc' = Put(pc, i, "llm_wait")
                /\ UNCHANGED <<state, llm_outcome, exc>>
    /\ UNCHANGED <<result, outcome, index_calls, sent, GROQ_API_KEY, index_hits>>

\* llm.invoke returns or raises (lines 121-128)
llm_invoke(i) ==
    /\ pc[i] = "llm_wait"
    /\ loop = i
    /\ \E r \in LlmOutcomes :
          /\ llm_outcome' = Put(llm_outcome, i, r)
          /\ state' = SetState(state, i,
                          IF r.kind = "completion"
                          THEN [state[i] EXCEPT !.answer = r.text]
                          ELSE GenerationFailedState(state[i], r.text))
    /\ loop' = 0
    /\ pc' = Put(pc, i, "generated")
    /\ UNCHANGED <<result, outcome, index_calls, get_llm_calls, invoke_calls,
                   prompt, exc, sent, GROQ_API_KEY, index_hits>>

\* agent.ainvoke returns and main shows the result (lines 196-217)
main_result(i) ==
    /\ pc[i] = "generated"
    /\ loop = 0
    /\ result' = Put(result, i, state[i])
    /\ sent' = Put(sent, i, Display(state[i]))
    /\ pc' = Put(pc, i, "done")
    /\ UNCHANGED <<state, outcome, llm_outcome, index_calls, get_llm_calls,
                   invoke_calls, prompt, exc, loop, GROQ_API_KEY, index_hits>>

\* agent.ainvoke raises and main reports it (lines 219-227)
main_except(i) ==
    /\ pc[i] = "raised"
    /\ loop = 0
    /\ sent' = Put(sent, i, << ErrorMessage(exc[i]) >>)
    /\ pc' = Put(pc, i, "failed")
    /\ UNCHANGED <<state, result, outcome, llm_outcome, index_calls, get_llm_calls,
                   invoke_calls, prompt, exc, loop, GROQ_API_KEY, index_hits>>

\* ----------------------------------------------------------- specifications
Outcomes(query) == IndexOutcomes(query, AllLists)

\* one message handled at a time, over every outcome of the two calls
Next ==
    \/ \E q \in Queries : main(1, q)
    \/ search_products(1, Outcomes(state[1].query))
    \/ generate_answer(1)
    \/ llm_invoke(1)
    \/ main_result(1)
    \/ main_except(1)

Spec == Init /\ [][Next]_vars

\* messages of several chat sessions handled on the one event loop
ConcurrentQueries == {"", "bluetooth headphones"}

ConcurrentBodies ==
    { SearchResponse(<<e>>) : e \in GoodEntries }
    \cup { SearchResponse(<< Entry(3, "Anker Q20", "Budget headphones", 4100, "no_title") >>),
           Body("object", TRUE,
                JsonList(<< Entry(1, "Sony WH-1000XM5", "Noise-canceling headphones", 15234, "none") >>),
                FALSE) }

ConcurrentOutcomes(query) ==
    { TransportFailure("timeout", ""),
      search_api(query, SearchSize, TRUE, TRUE),
      search_api(query, SearchSize, FALSE, TRUE) }
    \cup { Response("other", HTTP_OK, b) : b \in ConcurrentBodies }

Step(i) ==
    \/ \E q \in ConcurrentQueries : main(i, q)
    \/ search_products(i, ConcurrentOutcomes(state[i].query))
    \/ generate_answer(i)
    \/ llm_invoke(i)
    \/ main_result(i)
    \/ main_except(i)

NextConcurrent == \E i \in Invocations : Step(i)

SpecConcurrent == Init /\ [][NextConcurrent]_vars

\* ------------------------------------------------------------- properties
\* generate_answer has returned or raised
Generated(i) == pc[i] \in {"generated", "raised", "done", "failed"}

\* search_products has returned
Searched(i) == pc[i] \notin {"idle", "search_wait"}

BackendInvoked(i) == get_llm_calls[i] > 0 \/ invoke_calls[i] > 0

\* the index call timed out, failed to connect or answered a non-2xx status
IndexFailed(o) ==
    \/ o.kind \in {"timeout", "connect"}
    \/ o.kind = "response" /\ (o.status < 200 \/ o.status > 299)

\* the index answered 200 with a well-formed body
IndexSucceeded(o) ==
    /\ o.kind = "response"
    /\ o.status = HTTP_OK
    /\ o.body.json = "object" /\ o.body.has_results /\ o.body.has_took_ms
    /\ o.body.results.t = "list"

\* C1: the generation backend is invoked if and only if the retrieval stage
\* finished with no error and a non-empty search_results: it is never invoked
\* otherwise, and once generate_answer is over it has been invoked whenever
\* retrieval succeeded with a candidate.
C1_BackendIffRetrieved ==
    \A i \in Invocations :
        LET retrieved == state[i].error = None /\ Truthy(state[i].search_results)
        IN  /\ BackendInvoked(i) => retrieved
            /\ Generated(i) /\ retrieved => BackendInvoked(i)

\* C2: when the index call times out, fails to connect or answers a non-2xx
\* status, the invocation ends with error set, with an answer that is the
\* error report embedding that error, and without any call of the backend.
C2_IndexFailureReported ==
    \A i \in Invocations :
        IndexFailed(outcome[i]) =>
            /\ ~BackendInvoked(i)
            /\ pc[i] \in {"searched", "generated", "done"}
            /\ state[i].error # None
            /\ state[i].error =
                   IF outcome[i].kind = "response"
                   THEN "Search failed with status " \o ToString(outcome[i].status)
                   ELSE "Search error: " \o outcome[i].exc
            /\ pc[i] = "done" =>
                   /\ result[i].error = state[i].error
                   /\ result[i].answer = "Sorry, I encountered an error: " \o result[i].error

C2_Witness ==
    \E i \in Invocations :
        pc[i] = "done" /\ outcome[i].kind = "response" /\ outcome[i].status = HTTP_UNAVAILABLE

\* C3: when the index answers successfully with zero results, the invocation
\* ends with the fixed no-match answer, an empty search_results, no error, and
\* without any call of the backend.
C3_NoMatchAnswer ==
    \A i \in Invocations :
        IndexSucceeded(outcome[i]) /\ outcome[i].body.results.items = <<>> =>
            /\ ~BackendInvoked(i)
            /\ pc[i] \in {"searched", "generated", "done"}
            /\ pc[i] = "done" =>
                   /\ result[i].answer =
                          "I couldn't find any products matching your query. Could you try rephrasing?"
                   /\ result[i].search_results = JsonList(<<>>)
                   /\ result[i].error = None

C3_Witness ==
    \E i \in Invocations :
        /\ pc[i] = "done"
        /\ IndexSucceeded(outcome[i])
        /\ outcome[i].body.results.items = <<>>

\* C4: when retrieval succeeded with a candidate and the backend fails (it
\* raises, or its credential is missing), the invocation completes with
\* search_results non-empty and as the index returned it, a non-empty
\* degraded-failure answer, and error unset.
C4_GenerationFailureDegrades ==
    \A i \in Invocations :
        llm_outcome[i].kind \in {"raised", "no_credential"} =>
            /\ pc[i] \in {"generated", "done"}
            /\ state[i].error = None
            /\ Truthy(state[i].search_results)
            /\ state[i].search_results = outcome[i].body.results
            /\ state[i].answer =
                   "Sorry, I couldn't generate a response: " \o llm_outcome[i].text
            /\ TruthyStr(state[i].answer)
            /\ pc[i] = "done" => result[i] = state[i]

C4_Witness ==
    \E i \in Invocations :
        pc[i] = "done" /\ llm_outcome[i].kind = "raised" /\ Len(result[i].search_results.items) = MaxResults

\* C5: no exception leaves search_products or generate_answer, and every
\* invocation of the workflow ends with a result whose answer is a non-empty
\* string.
C5_NoExceptionEscapes ==
    \A i \in Invocations :
        /\ pc[i] \notin {"raised", "failed"}
        /\ pc[i] = "done" => TruthyStr(result[i].answer)

\* C6: whenever error is set, search_results is empty or unset.
C6_ErrorImpliesNoResults ==
    \A i \in Invocations :
        state[i].error # None => ~Truthy(state[i].search_results)

\* C7: under any interleaving of concurrent invocations, a step of one
\* invocation leaves every other invocation's state record, index response
\* and result untouched, and the search_results and answer an invocation
\* returns come from its own index response and its own backend call.
C7_InvocationsIsolated ==
    /\ [][\A i \in Invocations :
             pc'[i] = pc[i] =>
                 /\ state'[i] = state[i]
                 /\ result'[i] = result[i]
                 /\ outcome'[i] = outcome[i]]_vars
    /\ [](\A i \in Invocations :
             pc[i] = "done" =>
                 /\ result[i] = state[i]
                 /\ result[i].search_results \in {JsonList(<<>>), outcome[i].body.results}
                 /\ result[i].answer \in
                        { "Sorry, I encountered an error: " \o result[i].error,
                          "I couldn't find any products matching your query. Could you try rephrasing?",
                          llm_outcome[i].text,
                          "Sorry, I couldn't generate a response: " \o llm_outcome[i].text })

C7_Witness ==
    \E i \in Invocations : \E j \in Invocations :
        /\ pc[i] = "done" /\ pc[j] = "searched"
        /\ Truthy(result[i].search_results) /\ Truthy(state[j].search_results)
        /\ result[i].search_results # state[j].search_results
        /\ result[i].query # state[j].query

\* C8: while an invocation waits on the index request or on the backend
\* call, every other invocation that has not ended can take a step.
C8_WaitsDoNotBlock ==
    \A i \in Invocations : \A j \in Invocations \ {i} :
        pc[i] \in {"search_wait", "llm_wait"} /\ pc[j] \notin {"done", "failed"}
            => ENABLED Step(j)

\* the kind the retrieval failure of an outcome is to be classified as
RetrievalErrorKind(o) ==
    IF o.kind = "timeout" THEN "Timeout"
    ELSE IF o.kind = "connect" \/ o.status # HTTP_OK THEN "Unavailable"
    ELSE "Malformed"

C10_InvalidQueryNoError ==
    \A i \in Invocations :
        /\ Searched(i)
        /\ ~SearchRequestValid(state[i].query, SearchSize)
        /\ outcome[i].via = "api"
        => state[i].error = None

\* the scores of a result list never increase along it
ScoresNonIncreasing(items) ==
    \A k \in 1 .. Len(items) - 1 : items[k].score >= items[k + 1].score

\* C11: whenever the index is reachable (the search endpoint answers 200) and
\* holds at least one document matching the query, the search_results the
\* invocation returns is non-empty and in non-increasing order of score.
C11_ReachableIndexRanked ==
    \A i \in Invocations :
        /\ pc[i] = "done"
        /\ outcome[i].via = "api"
        /\ outcome[i].status = HTTP_OK
        /\ index_hits[i] >= 1
        => /\ Truthy(result[i].search_results)
           /\ ScoresNonIncreasing(result[i].search_results.items)

\* the position of a stage in the order main, search, generate, end
StageRank(p) ==
    CASE p = "idle" -> 0
      [] p = "search_wait" -> 1
      [] p = "searched" -> 2
      [] p = "llm_wait" -> 3
      [] p \in {"generated", "raised"} -> 4
      [] OTHER -> 5

\* C12: an invocation issues exactly one index request, starts the generation
\* stage only after the retrieval stage has returned, calls the backend at
\* most once, and never goes back to a stage, also after a failure.
C12_StagesOnceInOrder ==
    /\ [](\A i \in Invocations :
             /\ index_calls[i] = (IF pc[i] = "idle" THEN 0 ELSE 1)
             /\ get_llm_calls[i] <= 1
             /\ invoke_calls[i] <= 1
             /\ BackendInvoked(i) => Searched(i)
             /\ ~Searched(i) => llm_outcome[i] = NoLlmOutcome /\ outcome[i] = NoOutcome)
    /\ [][\A i \in Invocations :
             /\ pc'[i] # pc[i] => StageRank(pc'[i]) > StageRank(pc[i])
             /\ pc'[i] # pc[i] /\ pc'[i] \in {"llm_wait", "generated", "raised"}
                    => pc[i] \in {"searched", "llm_wait"}
             /\ outcome[i] # NoOutcome => outcome'[i] = outcome[i]
             /\ llm_outcome[i] # NoLlmOutcome => llm_outcome'[i] = llm_outcome[i]]_vars

C12_Witness ==
    \E i \in Invocations :
        /\ pc[i] = "done"
        /\ llm_outcome[i].kind = "raised"
        /\ index_calls[i] = 1
        /\ invoke_calls[i] = 1

\* the record expected at position k for candidate e, written out: the
\* position, the candidate's title and description, and its score as Python
\* prints it with two decimals
ExpectedRecord(k, e) ==
    "Product " \o << "1", "2", "3", "4" >>[k] \o ":\n"
    \o "Title: " \o e.title \o "\n"
    \o "Description: " \o e.description \o "\n"
    \o "Relevance Score: "
    \o (CASE e.score = 15234 -> "15.23"
          [] e.score = 9800 -> "9.80"
          [] e.score = 4100 -> "4.10")

\* the N expected records in the order of the retrieval set, a blank line
\* between two of them
ExpectedContext(items) ==
    CASE Len(items) = 1 -> ExpectedRecord(1, items[1])
      [] Len(items) = 2 -> ExpectedRecord(1, items[1]) \o "\n\n" \o ExpectedRecord(2, items[2])
      [] Len(items) = 3 -> ExpectedRecord(1, items[1]) \o "\n\n" \o ExpectedRecord(2, items[2])
                           \o "\n\n" \o ExpectedRecord(3, items[3])
      [] Len(items) = 4 -> ExpectedRecord(1, items[1]) \o "\n\n" \o ExpectedRecord(2, items[2])
                           \o "\n\n" \o ExpectedRecord(3, items[3])
                           \o "\n\n" \o ExpectedRecord(4, items[4])

\* C13: the context block in the prompt handed to the backend consists of
\* exactly one record per candidate of the retrieval set, the k-th record
\* carrying position k and the title, description and score of the k-th
\* candidate, in the order of the retrieval set.
C13_ContextRecordsInOrder ==
    \A i \in Invocations :
        invoke_calls[i] > 0 =>
            /\ Len(state[i].search_results.items) >= 1
            /\ prompt[i] = Prompt(ExpectedContext(state[i].search_results.items),
                                  state[i].query)

C13_Witness ==
    \E i \in Invocations :
        /\ pc[i] = "llm_wait"
        /\ Len(state[i].search_results.items) = MaxResults
        /\ state[i].search_results.items[1] # state[i].search_results.items[MaxResults]

\* C14: after a successful index response the search_results held, and
\* returned at the end of the invocation, is exactly the sequence the index
\* returned (same entries, order and scores), and no step of the generation
\* stage changes query, search_results or error, whichever path it takes.
C14_ResultsVerbatimAndFramed ==
    /\ [](\A i \in Invocations :
             Searched(i) /\ IndexSucceeded(outcome[i]) =>
                 /\ state[i].search_results = outcome[i].body.results
                 /\ pc[i] = "done" => result[i].search_results = outcome[i].body.results)
    /\ [][\A i \in Invocations :
             pc[i] \in {"searched", "llm_wait"} =>
                 /\ state'[i].query = state[i].query
                 /\ state'[i].search_results = state[i].search_results
                 /\ state'[i].error = state[i].error]_vars

C14_Witness ==
    \E i \in Invocations :
        /\ pc[i] = "done"
        /\ IndexSucceeded(outcome[i])
        /\ llm_outcome[i].kind = "completion"
        /\ Len(result[i].search_results.items) = MaxResults
        /\ result[i].search_results.items[1].score
               < result[i].search_results.items[MaxResults].score

====
